---- MODULE Spec2Model ----
(***************************************************************************)
(* A model of scripts/build-spec.ts: the reference resolver (resolveRefs), *)
(* the product derivation (extractProduct), the reduced document           *)
(* (generateSpecFile) and the product list built by main.                  *)
(*                                                                         *)
(* Strings are sequences of one-character strings, so that replace, split, *)
(* toLowerCase, the regular expressions and the default sort order are     *)
(* modelled on characters.  JSON values are records of one shape:          *)
(*   t    : "undefined", "null", "string", "number", "array", "object"     *)
(*   s    : the characters of a string or number                           *)
(*   kids : the elements of an array or the entries of an object, in       *)
(*          order, each [k |-> key, v |-> value] (k is <<>> in an array)   *)
(***************************************************************************)
EXTENDS Integers, Sequences, FiniteSets, TLC

VARIABLES
    doc,        \* resolveRefs: the Document (parameter spec)
    input,      \* resolveRefs: the obj of the top-level call
    cur,        \* resolveRefs: the obj of the call being entered
    stack,      \* resolveRefs: the calls that wait for a callee, innermost last
    seen,       \* resolveRefs: the Set shared by the calls of one top-level call
    parts,      \* resolveRefs: the segments the walk of line 44 has yet to take
    resolved,   \* resolveRefs: the local resolved of lines 43-47
    ret,        \* resolveRefs: the value the last finished call returned
    pc,         \* resolveRefs: "idle", "call", "walk", "iter", "return", "done"
    gpc,        \* generateSpecFile: "idle", "path", "method", the field being
                \*   resolved ("parameters", "requestBody", "responses"), "done"
    pi,         \* generateSpecFile: the entry of Object.entries(spec.paths) at hand
    mi,         \* generateSpecFile: the element of HTTP_METHODS at hand
    paths,      \* generateSpecFile: the local paths, its entries in insertion order
    tags,       \* generateSpecFile: the local tags of the operation at hand
    done,       \* generateSpecFile: the values of parameters and requestBody
                \*   already resolved for the operation at hand
    out,        \* generateSpecFile: the document that is serialized and returned
    path,       \* extractProduct: the parameter path
    product,    \* extractProduct: the value returned
    ppc,        \* extractProduct: "idle", "call", "done"
    pathKeys,   \* main: Object.keys(spec.paths).sort()
    ki,         \* main: the element of pathKeys the loop of line 123 is at
    products,   \* main: the Map products, its entries in insertion order
    sortedProducts, \* main: the entries of products after the sort of line 129
    PRODUCTS,   \* main: the list written to products.ts
    mpc         \* main: "idle", "count", "sort", "write", "done"

resolverVars == <<doc, input, cur, stack, seen, parts, resolved, ret, pc>>
generatorVars == <<gpc, pi, mi, paths, tags, done, out>>
productVars == <<path, product, ppc>>
mainVars == <<pathKeys, ki, products, sortedProducts, PRODUCTS, mpc>>

(***************************************************************************)
(* JSON values                                                             *)
(***************************************************************************)
Undef == [t |-> "undefined", s |-> <<>>, kids |-> <<>>]
Null == [t |-> "null", s |-> <<>>, kids |-> <<>>]
Str(chars) == [t |-> "string", s |-> chars, kids |-> <<>>]
Num(digits) == [t |-> "number", s |-> digits, kids |-> <<>>]
KV(key, val) == [k |-> key, v |-> val]
Obj(entries) == [t |-> "object", s |-> <<>>, kids |-> entries]
Arr(items) ==
    [t |-> "array", s |-> <<>>,
     kids |-> [i \in 1..Len(items) |-> KV(<<>>, items[i])]]

HasKey(obj, key) == \E i \in 1..Len(obj.kids) : obj.kids[i].k = key
GetKey(obj, key) ==
    IF obj.t = "object" /\ HasKey(obj, key)
    THEN obj.kids[CHOOSE i \in 1..Len(obj.kids) : obj.kids[i].k = key].v
    ELSE Undef

REF == <<"$", "r", "e", "f">>
CIRCULAR == <<"$", "c", "i", "r", "c", "u", "l", "a", "r">>

Marker(ref) == Obj(<<KV(REF, Str(ref))>>)

(***************************************************************************)
(* String operations of the resolver                                       *)
(***************************************************************************)
\* ref.replace('#/', ''): the first occurrence of "#/" is removed, wherever it is
StripRoot(ref) ==
    LET hits == {i \in 1..(Len(ref) - 1) : ref[i] = "#" /\ ref[i + 1] = "/"}
    IN  IF hits = {} THEN ref
        ELSE LET i == CHOOSE j \in hits : \A h \in hits : j <= h
             IN  SubSeq(ref, 1, i - 1) \o SubSeq(ref, i + 2, Len(ref))

\* s.split('/'): at least one part, empty parts kept
Split(str) ==
    LET slashes == {i \in 1..Len(str) : str[i] = "/"}
        n == Cardinality(slashes)
        Pos(k) ==
            IF k = 0 THEN 0
            ELSE IF k = n + 1 THEN Len(str) + 1
            ELSE CHOOSE i \in slashes : Cardinality({j \in slashes : j <= i}) = k
    IN  [k \in 1..(n + 1) |-> SubSeq(str, Pos(k - 1) + 1, Pos(k) - 1)]

\* the array index a one-digit property name stands for, or -1
DigitIndex(part) ==
    IF Len(part) # 1 THEN -1
    ELSE CASE part[1] = "0" -> 0 [] part[1] = "1" -> 1 [] part[1] = "2" -> 2
           [] part[1] = "3" -> 3 [] part[1] = "4" -> 4 [] OTHER -> -1

\* (resolved as Record<string, unknown>)?.[part], on own keys and elements:
\* undefined and null give undefined through ?. ; a missing key gives undefined
Index(from, part) ==
    CASE from.t = "object" -> GetKey(from, part)
      [] from.t = "array" ->
            IF DigitIndex(part) >= 0 /\ DigitIndex(part) < Len(from.kids)
            THEN from.kids[DigitIndex(part) + 1].v ELSE Undef
      [] from.t = "string" ->
            IF DigitIndex(part) >= 0 /\ DigitIndex(part) < Len(from.s)
            THEN Str(<<from.s[DigitIndex(part) + 1]>>) ELSE Undef
      [] OTHER -> Undef

\* line 42: ref.replace('#/', '').split('/')
PartsOf(ref) == Split(StripRoot(ref))

\* lines 43-46 as a function: the value the reference string leads to
RECURSIVE WalkParts(_, _)
WalkParts(from, segs) ==
    IF segs = <<>> THEN from
    ELSE WalkParts(Index(from, Head(segs)), Tail(segs))

Lookup(ref, spec) == WalkParts(spec, PartsOf(ref))

(***************************************************************************)
(* resolveRefs, one step per branch of its body.  A call is entered with   *)
(* pc = "call" and obj in cur; the calls waiting for a callee are frames   *)
(* of the stack:                                                           *)
(*   kind "array" / "object": obj.map(...) or the for loop of lines 51-53, *)
(*        src the obj, i the next child, acc the children resolved so far  *)
(*   kind "ref": line 47, waiting for the resolution of the target of ref  *)
(***************************************************************************)
Frame(kind, src, ref) == [kind |-> kind, src |-> src, i |-> 1, acc |-> <<>>, ref |-> ref]

Top == stack[Len(stack)]
Pop == SubSeq(stack, 1, Len(stack) - 1)

\* a slip: the type of record.$ref is not looked at
IsMarkerOfAnyType(obj) == obj.t = "object" /\ HasKey(obj, REF)

\* line 37: '$ref' in record && typeof record.$ref === 'string'
IsMarker(obj) == obj.t = "object" /\ HasKey(obj, REF) /\ GetKey(obj, REF).t = "string"

\* line 38
RefOf(obj) == GetKey(obj, REF).s

\* a slip: any reference string in the Set counts, not this one
SeenHasAny(set, ref) == set # {}

\* line 39: seen.has(ref)
SeenHas(set, ref) == ref \in set

\* a slip: the marker is returned where the placeholder is due
MarkerKept(ref) == Marker(ref)

\* line 39: { $circular: ref }
CircularPlaceholder(ref) == Obj(<<KV(CIRCULAR, Str(ref))>>)

\* a slip: one Set for all the calls, as a default created once would be
SharedSeen(old) == old

\* line 30: the default value of the parameter seen, evaluated at each call
\* that passes no third argument
NewSeen(old) == {}

\* lines 31-32: null, undefined and every non-object are returned as they are
ReturnPrimitive ==
    /\ pc = "call"
    /\ cur.t \notin {"array", "object"}
    /\ ret' = cur
    /\ pc' = "return"
    /\ UNCHANGED <<doc, input, cur, stack, seen, parts, resolved>>
    /\ UNCHANGED <<generatorVars, productVars, mainVars>>

\* line 33: obj.map(item => resolveRefs(item, spec, seen))
EnterArray ==
    /\ pc = "call"
    /\ cur.t = "array"
    /\ stack' = Append(stack, Frame("array", cur, <<>>))
    /\ pc' = "iter"
    /\ UNCHANGED <<doc, input, cur, seen, ret, parts, resolved>>
    /\ UNCHANGED <<generatorVars, productVars, mainVars>>

\* line 39: the reference string is in seen
ReturnCircular ==
    /\ pc = "call"
    /\ IsMarker(cur)
    /\ SeenHas(seen, RefOf(cur))
    /\ ret' = CircularPlaceholder(RefOf(cur))
    /\ pc' = "return"
    /\ UNCHANGED <<doc, input, cur, stack, seen, parts, resolved>>
    /\ UNCHANGED <<generatorVars, productVars, mainVars>>

\* lines 40-43: seen.add(ref), the parts of the reference string, resolved = spec
ExpandRef ==
    /\ pc = "call"
    /\ IsMarker(cur)
    /\ ~SeenHas(seen, RefOf(cur))
    /\ seen' = seen \cup {RefOf(cur)}
    /\ stack' = Append(stack, Frame("ref", cur, RefOf(cur)))
    /\ parts' = PartsOf(RefOf(cur))
    /\ resolved' = doc
    /\ pc' = "walk"
    /\ UNCHANGED <<doc, input, cur, ret>>
    /\ UNCHANGED <<generatorVars, productVars, mainVars>>

\* lines 44-46: one turn of the loop over the parts
WalkStep ==
    /\ pc = "walk"
    /\ parts # <<>>
    /\ resolved' = Index(resolved, Head(parts))
    /\ parts' = Tail(parts)
    /\ UNCHANGED <<doc, input, cur, stack, seen, ret, pc>>
    /\ UNCHANGED <<generatorVars, productVars, mainVars>>

\* line 47: resolveRefs(resolved, spec, seen)
ResolveTarget ==
    /\ pc = "walk"
    /\ parts = <<>>
    /\ cur' = resolved
    /\ pc' = "call"
    /\ UNCHANGED <<doc, input, stack, seen, ret, parts, resolved>>
    /\ UNCHANGED <<generatorVars, productVars, mainVars>>

\* lines 50-51: a mapping that is no marker
EnterObject ==
    /\ pc = "call"
    /\ cur.t = "object"
    /\ ~IsMarker(cur)
    /\ stack' = Append(stack, Frame("object", cur, <<>>))
    /\ pc' = "iter"
    /\ UNCHANGED <<doc, input, cur, seen, ret, parts, resolved>>
    /\ UNCHANGED <<generatorVars, productVars, mainVars>>

\* lines 33 and 52: the call for the next element or entry
NextChild ==
    /\ pc = "iter"
    /\ Top.i <= Len(Top.src.kids)
    /\ cur' = Top.src.kids[Top.i].v
    /\ pc' = "call"
    /\ UNCHANGED <<doc, input, stack, seen, ret, parts, resolved>>
    /\ UNCHANGED <<generatorVars, productVars, mainVars>>

\* lines 33 and 54: the new array or mapping is returned
FinishChildren ==
    /\ pc = "iter"
    /\ Top.i > Len(Top.src.kids)
    /\ ret' = [t |-> Top.kind, s |-> <<>>, kids |-> Top.acc]
    /\ stack' = Pop
    /\ pc' = "return"
    /\ UNCHANGED <<doc, input, cur, seen, parts, resolved>>
    /\ UNCHANGED <<generatorVars, productVars, mainVars>>

\* lines 33 and 52: the callee's value is stored under the child's key;
\* line 47: the callee's value is returned as it is
ReturnToCaller ==
    /\ pc = "return"
    /\ stack # <<>>
    /\ IF Top.kind = "ref"
       THEN /\ stack' = Pop
            /\ pc' = "return"
       ELSE /\ stack' = [stack EXCEPT ![Len(stack)] =
                            [@ EXCEPT !.acc = Append(@, KV(Top.src.kids[Top.i].k, ret)),
                                      !.i = @ + 1]]
            /\ pc' = "iter"
    /\ UNCHANGED <<doc, input, cur, seen, ret, parts, resolved>>
    /\ UNCHANGED <<generatorVars, productVars, mainVars>>

\* the top-level call returns to its caller
ReturnTop ==
    /\ pc = "return"
    /\ stack = <<>>
    /\ pc' = "done"
    /\ UNCHANGED <<doc, input, cur, stack, seen, ret, parts, resolved>>
    /\ UNCHANGED <<generatorVars, productVars, mainVars>>

ResolveStep ==
    \/ ReturnPrimitive
    \/ EnterArray
    \/ ReturnCircular
    \/ ExpandRef
    \/ WalkStep
    \/ ResolveTarget
    \/ EnterObject
    \/ NextChild
    \/ FinishChildren
    \/ ReturnToCaller

(***************************************************************************)
(* resolveRefs as a function: the value returned and the Set as the call   *)
(* leaves it.  The Set is threaded through the children in order, as the   *)
(* one mutable Set of the code is.                                         *)
(***************************************************************************)
RECURSIVE ResolveRefs(_, _, _)
RECURSIVE ResolveKids(_, _, _, _)
ResolveKids(kids, spec, set, acc) ==
    IF kids = <<>> THEN [val |-> acc, seen |-> set]
    ELSE LET r == ResolveRefs(Head(kids).v, spec, set)
         IN  ResolveKids(Tail(kids), spec, r.seen, Append(acc, KV(Head(kids).k, r.val)))

ResolveRefs(obj, spec, set) ==
    IF obj.t \notin {"array", "object"} THEN [val |-> obj, seen |-> set]
    ELSE IF IsMarker(obj)
    THEN IF SeenHas(set, RefOf(obj))
         THEN [val |-> CircularPlaceholder(RefOf(obj)), seen |-> set]
         ELSE ResolveRefs(Lookup(RefOf(obj), spec), spec, set \cup {RefOf(obj)})
    ELSE LET r == ResolveKids(obj.kids, spec, set, <<>>)
         IN  [val |-> [t |-> obj.t, s |-> <<>>, kids |-> r.val], seen |-> r.seen]

(***************************************************************************)
(* The Documents and the values the resolver is checked on                 *)
(***************************************************************************)
\* the longest array of markers among the inputs
MaxWidth == 2

S(c) == <<c>>
RefTo(slot) == <<"#", "/", "c", "/", slot>>
RefA == RefTo("A")
RefB == RefTo("B")
RefC == RefTo("C")
\* no key Z under c
RefMissing == RefTo("Z")
\* no key q in the Document: the walk goes on through undefined
RefThroughAbsent == <<"#", "/", "q", "/", "A">>
\* no "#/" to strip: the same location as RefA under another reference string
RefNoRoot == <<"c", "/", "A">>
\* the first element (or character) of slot A
RefIndex == <<"#", "/", "c", "/", "A", "/", "0">>

Scalar == Str(<<"s">>)

SlotRefs == {RefA, RefB, RefC, RefMissing}

SlotPool ==
    {Scalar}
    \cup {Marker(r) : r \in SlotRefs}
    \cup {Arr(<<Marker(RefB), Marker(RefC)>>),
          Obj(<<KV(S("x"), Marker(RefA)), KV(S("y"), Marker(RefC))>>)}

Document(a, b, c) ==
    Obj(<<KV(S("c"), Obj(<<KV(S("A"), a), KV(S("B"), b), KV(S("C"), c)>>))>>)

Documents == {Document(a, b, c) : a \in SlotPool, b \in SlotPool, c \in {Scalar, Marker(RefA)}}

InputRefs == {RefA, RefB, RefMissing}

RECURSIVE MarkerSeqs(_)
MarkerSeqs(n) ==
    IF n = 0 THEN {<<>>}
    ELSE LET shorter == MarkerSeqs(n - 1)
         IN  shorter \cup {Append(q, Marker(r)) : q \in {x \in shorter : Len(x) = n - 1}, r \in InputRefs}

\* values with no marker in them
ResolvedInputs ==
    {Undef, Null, Scalar, Num(<<"7">>),
     Arr(<<Scalar, Null, Arr(<<>>)>>),
     Obj(<<KV(S("y"), Scalar), KV(S("x"), Obj(<<KV(S("z"), Num(<<"7">>))>>))>>),
     Obj(<<KV(REF, Num(<<"7">>)), KV(S("x"), Arr(<<Scalar>>))>>)}

MarkerInputs ==
    {Marker(r) : r \in SlotRefs \cup {RefThroughAbsent, RefNoRoot, RefIndex}}
    \cup {Arr(q) : q \in MarkerSeqs(MaxWidth) \ {<<>>}}
    \cup {Obj(<<KV(S("x"), Marker(r1)), KV(S("y"), Scalar), KV(S("z"), Marker(r2))>>) :
             r1 \in {RefA, RefMissing}, r2 \in {RefA, RefMissing}}
    \cup {Obj(<<KV(S("x"), Scalar), KV(REF, Str(RefA))>>),
          Arr(<<Marker(RefNoRoot), Marker(RefA)>>)}

Inputs == ResolvedInputs \cup MarkerInputs

(***************************************************************************)
(* extractProduct                                                          *)
(***************************************************************************)
ACCOUNTS == <<"a", "c", "c", "o", "u", "n", "t", "s">>
ZONES == <<"z", "o", "n", "e", "s">>

\* the last index of the longest run of characters other than stop that
\* starts at from (from - 1 when the run is empty): a greedy [^stop]+
RunEnd(str, from, stop) ==
    LET stops == {i \in from..Len(str) : str[i] = stop}
    IN  IF stops = {} THEN Len(str)
        ELSE (CHOOSE i \in stops : \A j \in stops : i <= j) - 1

\* /\/word\/\{[^}]+\}\/([^/]+)/ tried at index at: the captured group as
\* <<first, last>>, or <<>> when the pattern does not match there
MatchAt(str, at, word) ==
    LET lit == <<"/">> \o word \o <<"/", "{">>
        open == at + Len(lit)
        close == RunEnd(str, open, "}") + 1
        last == RunEnd(str, close + 2, "/")
    IN  IF /\ at + Len(lit) - 1 <= Len(str)
           /\ SubSeq(str, at, at + Len(lit) - 1) = lit
           /\ close > open
           /\ close + 1 <= Len(str)
           /\ str[close] = "}"
           /\ str[close + 1] = "/"
           /\ last >= close + 2
        THEN <<close + 2, last>>
        ELSE <<>>

\* path.match(/\/word\/\{[^}]+\}\/([^/]+)/): element 1 of the leftmost
\* match, or Null when there is no match
Match(str, word) ==
    LET starts == {i \in 1..Len(str) : MatchAt(str, i, word) # <<>>}
    IN  IF starts = {} THEN Null
        ELSE LET at == CHOOSE i \in starts : \A j \in starts : i <= j
                 group == MatchAt(str, at, word)
             IN  Str(SubSeq(str, group[1], group[2]))

\* a slip: the zones pattern tried before the accounts pattern
extractProductZonesFirst(str) ==
    LET accountMatch == Match(str, ACCOUNTS)
        zoneMatch == Match(str, ZONES)
    IN  IF zoneMatch # Null THEN zoneMatch
        ELSE IF accountMatch # Null THEN accountMatch
        ELSE Undef

\* lines 18-26
extractProduct(str) ==
    LET accountMatch == Match(str, ACCOUNTS)
        zoneMatch == Match(str, ZONES)
    IN  IF accountMatch # Null THEN accountMatch
        ELSE IF zoneMatch # Null THEN zoneMatch
        ELSE Undef

\* a slip: options taken for one of the methods
MethodsWithOptions == <<<<"g", "e", "t">>, <<"p", "o", "s", "t">>, <<"p", "u", "t">>, <<"p", "a", "t", "c", "h">>, <<"d", "e", "l", "e", "t", "e">>, <<"o", "p", "t", "i", "o", "n", "s">>>>

\* line 28
HTTP_METHODS == <<<<"g", "e", "t">>, <<"p", "o", "s", "t">>, <<"p", "u", "t">>, <<"p", "a", "t", "c", "h">>, <<"d", "e", "l", "e", "t", "e">>>>

\* the characters with another lower-case form, among those of the model
LowerChar(c) ==
    CASE c = "D" -> "d" [] c = "N" -> "n" [] c = "R" -> "r" [] c = "S" -> "s"
      [] c = "X" -> "x" [] OTHER -> c

\* a slip: the tags compared as they are
CaseKept(str) == str

\* String.prototype.toLowerCase
toLowerCase(str) == [i \in 1..Len(str) |-> LowerChar(str[i])]

\* what if (v) and v && ... take for true
Truthy(val) ==
    /\ val.t \notin {"undefined", "null"}
    /\ ~(val.t = "string" /\ val.s = <<>>)
    /\ ~(val.t = "number" /\ val.s = <<"0">>)

(***************************************************************************)
(* Property names                                                          *)
(***************************************************************************)
PATHS == <<"p", "a", "t", "h", "s">>
TAGS == <<"t", "a", "g", "s">>
SUMMARY == <<"s", "u", "m", "m", "a", "r", "y">>
DESCRIPTION == <<"d", "e", "s", "c", "r", "i", "p", "t", "i", "o", "n">>
PARAMETERS == <<"p", "a", "r", "a", "m", "e", "t", "e", "r", "s">>
REQUESTBODY == <<"r", "e", "q", "u", "e", "s", "t", "B", "o", "d", "y">>
RESPONSES == <<"r", "e", "s", "p", "o", "n", "s", "e", "s">>

(***************************************************************************)
(* The Documents generateSpecFile is checked on: two path entries over     *)
(* three component slots                                                   *)
(***************************************************************************)
GET == HTTP_METHODS[1]
POST == HTTP_METHODS[2]
PUT == HTTP_METHODS[3]
DELETE == HTTP_METHODS[5]
OPTIONS == <<"o", "p", "t", "i", "o", "n", "s">>
HEAD == <<"h", "e", "a", "d">>

PathDns == <<"/", "a", "c", "c", "o", "u", "n", "t", "s", "/", "{", "a", "}", "/", "d", "n", "s">>
PathRecords == <<"/", "z", "o", "n", "e", "s", "/", "{", "z", "}", "/", "d", "_", "r">>
PathUser == <<"/", "u", "s", "e", "r", "/", "t">>
PathOther == <<"/", "z", "o", "n", "e", "s", "/", "{", "z", "}", "/", "x">>

\* op.tags: absent, empty, equal to a product but for case, close to one
TagPool ==
    {Undef,
     Arr(<<>>),
     Arr(<<Str(<<"D", "_", "R">>)>>),
     Arr(<<Str(<<"D", " ", "R">>)>>),
     Arr(<<Str(<<"x">>), Str(<<"d", "_", "r">>)>>),
     Arr(<<Str(<<"D", "N", "S">>), Str(<<"x">>)>>),
     Arr(<<Str(<<"d", "n">>), Str(<<"d", "n", "s", "x">>)>>)}

\* op.parameters, op.requestBody, op.responses
FieldPool ==
    {<<Arr(<<Marker(RefA)>>), Marker(RefA), Obj(<<KV(<<"2", "0", "0">>, Marker(RefA))>>)>>,
     <<Undef, Undef, Obj(<<KV(<<"2", "0", "0">>, Scalar)>>)>>,
     <<Arr(<<Marker(RefB), Marker(RefB)>>), Marker(RefMissing), Marker(RefA)>>}

Operation(tagsOf, fields) ==
    Obj(<<KV(SUMMARY, Scalar)>>
        \o (IF tagsOf = Undef THEN <<>> ELSE <<KV(TAGS, tagsOf)>>)
        \o (IF fields[1] = Undef THEN <<>> ELSE <<KV(PARAMETERS, fields[1])>>)
        \o (IF fields[2] = Undef THEN <<>> ELSE <<KV(REQUESTBODY, fields[2])>>)
        \o <<KV(RESPONSES, fields[3])>>)

Operations == {Operation(tg, f) : tg \in TagPool, f \in FieldPool}

PlainOperation == Operation(Undef, <<Undef, Marker(RefA), Obj(<<KV(<<"2", "0", "0">>, Marker(RefB))>>)>>)

\* a path entry: absent, without methods, with methods in and out of
\* HTTP_METHODS, with a method whose value is null
PathItems ==
    {Null, Obj(<<>>)}
    \cup {Obj(<<KV(GET, op)>>) : op \in Operations}
    \cup {Obj(<<KV(GET, op), KV(OPTIONS, PlainOperation)>>) : op \in Operations}
    \cup {Obj(<<KV(PARAMETERS, Arr(<<>>)), KV(HEAD, op), KV(POST, op), KV(DELETE, PlainOperation)>>) :
             op \in Operations}
    \cup {Obj(<<KV(DELETE, op), KV(PUT, Null), KV(GET, PlainOperation)>>) : op \in Operations}

GenComponents ==
    {Obj(<<KV(S("A"), Scalar), KV(S("B"), Marker(RefA))>>),
     Obj(<<KV(S("A"), Marker(RefB)), KV(S("B"), Marker(RefA))>>),
     Obj(<<KV(S("A"), Obj(<<KV(S("x"), Marker(RefB)), KV(S("y"), Marker(RefB))>>)),
           KV(S("B"), Scalar)>>)}

GenDocuments ==
    {Obj(<<KV(PATHS, Obj(<<KV(key, item), KV(PathOther, other)>>)), KV(S("c"), comp)>>) :
        key \in {PathDns, PathRecords, PathUser},
        item \in PathItems,
        other \in {Null, Obj(<<KV(GET, PlainOperation)>>)},
        comp \in GenComponents}
    \cup {Obj(<<KV(S("c"), Obj(<<>>))>>)}

(***************************************************************************)
(* generateSpecFile, one step per turn of its loops and per call of        *)
(* resolveRefs; the calls run the steps of resolveRefs above.              *)
(***************************************************************************)
\* line 60: Object.entries(spec.paths || {})
PathEntries(spec) ==
    IF Truthy(GetKey(spec, PATHS)) THEN GetKey(spec, PATHS).kids ELSE <<>>

\* line 65: pathItem[method]
OperationAt(spec, p, m) == Index(PathEntries(spec)[p].v, HTTP_METHODS[m])

\* op.tags ? [...op.tags] : []
CopyTags(op) == IF Truthy(GetKey(op, TAGS)) THEN GetKey(op, TAGS).kids ELSE <<>>

\* line 69: tags.some(t => t.toLowerCase() === product.toLowerCase())
SomeTagIs(tagList, prod) ==
    \E i \in 1..Len(tagList) : toLowerCase(tagList[i].v.s) = toLowerCase(prod.s)

\* lines 67-71
TagsFor(str, op) ==
    LET prod == extractProduct(str)
        copy == CopyTags(op)
    IN  IF Truthy(prod) /\ ~SomeTagIs(copy, prod)
        THEN <<KV(<<>>, prod)>> \o copy
        ELSE copy

\* JSON.stringify, as the value a parser reads back from the text: an entry
\* whose value is undefined is left out of a mapping, an undefined element of
\* a sequence becomes null
RECURSIVE Stringify(_)
Stringify(val) ==
    CASE val.t = "object" ->
            LET keep == SelectSeq(val.kids, LAMBDA e : e.v.t # "undefined")
            IN  Obj([i \in 1..Len(keep) |-> KV(keep[i].k, Stringify(keep[i].v))])
      [] val.t = "array" ->
            [val EXCEPT !.kids =
                [i \in 1..Len(val.kids) |->
                    KV(<<>>, IF val.kids[i].v.t = "undefined" THEN Null
                             ELSE Stringify(val.kids[i].v))]]
      [] OTHER -> val

\* a call resolveRefs(val, spec) from generateSpecFile
CallResolveRefs(val) ==
    /\ input' = val
    /\ cur' = val
    /\ seen' = NewSeen(seen)
    /\ stack' = <<>>
    /\ pc' = "call"
    /\ UNCHANGED <<doc, parts, resolved, ret>>

\* the call has returned to generateSpecFile
Returned == pc = "return" /\ stack = <<>>

\* line 58, and the Document generateSpecFile is called with
GenerateStart ==
    /\ gpc = "idle"
    /\ doc' \in GenDocuments
    /\ paths' = <<>>
    /\ pi' = 1
    /\ gpc' = "path"
    /\ UNCHANGED <<input, cur, stack, seen, parts, resolved, ret, pc>>
    /\ UNCHANGED <<mi, tags, done, out>>
    /\ UNCHANGED <<productVars, mainVars>>

\* line 61: if (!pathItem) continue
SkipPath ==
    /\ gpc = "path"
    /\ pi <= Len(PathEntries(doc))
    /\ ~Truthy(PathEntries(doc)[pi].v)
    /\ pi' = pi + 1
    /\ UNCHANGED <<resolverVars, gpc, mi, paths, tags, done, out>>
    /\ UNCHANGED <<productVars, mainVars>>

\* line 62: paths[path] = {}
EnterPath ==
    /\ gpc = "path"
    /\ pi <= Len(PathEntries(doc))
    /\ Truthy(PathEntries(doc)[pi].v)
    /\ paths' = Append(paths, KV(PathEntries(doc)[pi].k, Obj(<<>>)))
    /\ mi' = 1
    /\ gpc' = "method"
    /\ UNCHANGED <<resolverVars, pi, tags, done, out>>
    /\ UNCHANGED <<productVars, mainVars>>

\* lines 65-66: the path entry has no operation under the method
SkipMethod ==
    /\ gpc = "method"
    /\ mi <= Len(HTTP_METHODS)
    /\ ~Truthy(OperationAt(doc, pi, mi))
    /\ mi' = mi + 1
    /\ UNCHANGED <<resolverVars, gpc, pi, paths, tags, done, out>>
    /\ UNCHANGED <<productVars, mainVars>>

\* lines 67-76: the tags, then the call resolveRefs(op.parameters, spec)
StartOperation ==
    /\ gpc = "method"
    /\ mi <= Len(HTTP_METHODS)
    /\ Truthy(OperationAt(doc, pi, mi))
    /\ tags' = TagsFor(PathEntries(doc)[pi].k, OperationAt(doc, pi, mi))
    /\ done' = <<>>
    /\ CallResolveRefs(GetKey(OperationAt(doc, pi, mi), PARAMETERS))
    /\ gpc' = "parameters"
    /\ UNCHANGED <<pi, mi, paths, out>>
    /\ UNCHANGED <<productVars, mainVars>>

\* line 77: the call resolveRefs(op.requestBody, spec)
ResolveRequestBody ==
    /\ gpc = "parameters"
    /\ Returned
    /\ done' = <<KV(PARAMETERS, ret)>>
    /\ CallResolveRefs(GetKey(OperationAt(doc, pi, mi), REQUESTBODY))
    /\ gpc' = "requestBody"
    /\ UNCHANGED <<pi, mi, paths, tags, out>>
    /\ UNCHANGED <<productVars, mainVars>>

\* line 78: the call resolveRefs(op.responses, spec)
ResolveResponses ==
    /\ gpc = "requestBody"
    /\ Returned
    /\ done' = Append(done, KV(REQUESTBODY, ret))
    /\ CallResolveRefs(GetKey(OperationAt(doc, pi, mi), RESPONSES))
    /\ gpc' = "responses"
    /\ UNCHANGED <<pi, mi, paths, tags, out>>
    /\ UNCHANGED <<productVars, mainVars>>

\* lines 72-79: paths[path][method] = { summary, description, tags, ... }
StoreOperation ==
    /\ gpc = "responses"
    /\ Returned
    /\ LET op == OperationAt(doc, pi, mi)
           entry == Obj(<<KV(SUMMARY, GetKey(op, SUMMARY)),
                          KV(DESCRIPTION, GetKey(op, DESCRIPTION)),
                          KV(TAGS, [t |-> "array", s |-> <<>>, kids |-> tags])>>
                        \o done \o <<KV(RESPONSES, ret)>>)
       IN  paths' = [paths EXCEPT ![Len(paths)].v.kids = Append(@, KV(HTTP_METHODS[mi], entry))]
    /\ mi' = mi + 1
    /\ gpc' = "method"
    /\ UNCHANGED <<resolverVars, pi, tags, done, out>>
    /\ UNCHANGED <<productVars, mainVars>>

\* line 64: the loop over HTTP_METHODS ends
NextPath ==
    /\ gpc = "method"
    /\ mi > Len(HTTP_METHODS)
    /\ pi' = pi + 1
    /\ gpc' = "path"
    /\ UNCHANGED <<resolverVars, mi, paths, tags, done, out>>
    /\ UNCHANGED <<productVars, mainVars>>

\* line 84: JSON.stringify({ paths }, null, 2)
GenerateReturn ==
    /\ gpc = "path"
    /\ pi > Len(PathEntries(doc))
    /\ out' = Stringify(Obj(<<KV(PATHS, Obj(paths))>>))
    /\ gpc' = "done"
    /\ UNCHANGED <<resolverVars, pi, mi, paths, tags, done>>
    /\ UNCHANGED <<productVars, mainVars>>

(***************************************************************************)
(* main, lines 96 and 121-131: the product list.  The lines between read   *)
(* spec and write files; they assign none of the variables below.          *)
(***************************************************************************)
\* the UTF-16 code unit of a character of the model
Code(c) ==
    CASE c = "/" -> 47 [] c = "0" -> 48 [] c = "1" -> 49 [] c = "X" -> 88
      [] c = "_" -> 95 [] c = "a" -> 97 [] c = "b" -> 98 [] c = "c" -> 99
      [] c = "d" -> 100 [] c = "e" -> 101 [] c = "i" -> 105 [] c = "n" -> 110
      [] c = "o" -> 111 [] c = "r" -> 114 [] c = "s" -> 115 [] c = "t" -> 116
      [] c = "u" -> 117 [] c = "x" -> 120 [] c = "y" -> 121 [] c = "z" -> 122
      [] c = "{" -> 123 [] c = "}" -> 125

\* a < b in the order of the default sort: by code units, a proper prefix first
StrLess(a, b) ==
    \E i \in 1..(Len(b)) :
        /\ i <= Len(a) + 1
        /\ SubSeq(a, 1, i - 1) = SubSeq(b, 1, i - 1)
        /\ \/ i = Len(a) + 1
           \/ Code(a[i]) < Code(b[i])

\* e put into sorted before the first element the comparator puts after it,
\* behind every other one: the place a stable sort gives it
InsertBefore(sorted, e, later) ==
    LET at == IF later = {} THEN Len(sorted) + 1
              ELSE CHOOSE i \in later : \A j \in later : i <= j
    IN  SubSeq(sorted, 1, at - 1) \o <<e>> \o SubSeq(sorted, at, Len(sorted))

\* Array.prototype.sort() with the default comparator
RECURSIVE SortDefault(_, _)
SortDefault(todo, sorted) ==
    IF todo = <<>> THEN sorted
    ELSE SortDefault(Tail(todo),
            InsertBefore(sorted, Head(todo),
                {i \in 1..Len(sorted) : StrLess(Head(todo), sorted[i])}))

\* Array.prototype.sort((a, b) => b[1] - a[1]): stable, a after b when the
\* comparator is positive
RECURSIVE SortByCount(_, _)
SortByCount(todo, sorted) ==
    IF todo = <<>> THEN sorted
    ELSE SortByCount(Tail(todo),
            InsertBefore(sorted, Head(todo),
                {i \in 1..Len(sorted) : Head(todo).v - sorted[i].v > 0}))

\* Object.keys(spec.paths)
ObjectKeys(obj) == [i \in 1..Len(obj.kids) |-> obj.kids[i].k]

\* a slip: the path keys left in the order of the Document
UnsortedKeys(spec) == ObjectKeys(GetKey(spec, PATHS))

\* line 96
SortedKeys(spec) == SortDefault(ObjectKeys(GetKey(spec, PATHS)), <<>>)

\* line 126: products.set(product, (products.get(product) || 0) + 1); a key
\* the Map holds keeps its place
Increment(map, key) ==
    IF \E i \in 1..Len(map) : map[i].k = key
    THEN [i \in 1..Len(map) |-> IF map[i].k = key THEN KV(key, map[i].v + 1) ELSE map[i]]
    ELSE Append(map, KV(key, 1))

\* line 129
SortProducts(map) == SortByCount(map, <<>>)

\* line 123: one turn of the loop over pathKeys
CountProduct ==
    /\ mpc = "count"
    /\ ki <= Len(pathKeys)
    /\ LET prod == extractProduct(pathKeys[ki])
       IN  products' = IF Truthy(prod) THEN Increment(products, prod.s) ELSE products
    /\ ki' = ki + 1
    /\ UNCHANGED <<pathKeys, sortedProducts, PRODUCTS, mpc>>
    /\ UNCHANGED <<resolverVars, generatorVars, productVars>>

\* line 129
SortStep ==
    /\ mpc = "count"
    /\ ki > Len(pathKeys)
    /\ sortedProducts' = SortProducts(products)
    /\ mpc' = "write"
    /\ UNCHANGED <<pathKeys, ki, products, PRODUCTS>>
    /\ UNCHANGED <<resolverVars, generatorVars, productVars>>

\* line 131: sortedProducts.map(([p]) => p)
WriteProducts ==
    /\ mpc = "write"
    /\ PRODUCTS' = [i \in 1..Len(sortedProducts) |-> sortedProducts[i].k]
    /\ mpc' = "done"
    /\ UNCHANGED <<pathKeys, ki, products, sortedProducts>>
    /\ UNCHANGED <<resolverVars, generatorVars, productVars>>

\* a call of extractProduct returns
ProductReturn ==
    /\ ppc = "call"
    /\ product' = extractProduct(path)
    /\ ppc' = "done"
    /\ UNCHANGED path
    /\ UNCHANGED <<resolverVars, generatorVars, mainVars>>

(***************************************************************************)
(* One top-level call resolveRefs(input, doc)                              *)
(***************************************************************************)
\* line 30: resolveRefs(obj, spec) is called with no third argument
TopLevelCall ==
    /\ pc = "idle"
    /\ \E d \in Documents, v \in Inputs :
          /\ doc' = d
          /\ input' = v
          /\ cur' = v
    /\ seen' = NewSeen(seen)
    /\ pc' = "call"
    /\ stack' = <<>>
    /\ UNCHANGED <<parts, resolved, ret>>
    /\ UNCHANGED <<generatorVars, productVars, mainVars>>


(***************************************************************************)
(* The paths extractProduct is checked on: up to MaxPieces pieces in a row *)
(***************************************************************************)
MaxPieces == 5

Pieces ==
    {<<"/", "a", "c", "c", "o", "u", "n", "t", "s">>, <<"/", "z", "o", "n", "e", "s">>, <<"/", "{", "a", "}">>, <<"/", "{", "}">>, <<"/", "x">>, <<"/", "y">>, <<"/">>}

RECURSIVE PiecePaths(_)
PiecePaths(n) ==
    IF n = 0 THEN {<<>>}
    ELSE LET shorter == PiecePaths(n - 1)
         IN  shorter \cup {q \o piece : q \in shorter, piece \in Pieces}

ProductCall ==
    /\ ppc = "idle"
    /\ path' \in PiecePaths(MaxPieces)
    /\ ppc' = "call"
    /\ UNCHANGED product
    /\ UNCHANGED <<resolverVars, generatorVars, mainVars>>

(***************************************************************************)
(* The Documents main is checked on: up to MaxPaths path keys, in the      *)
(* order of KeyPool or in the opposite order                               *)
(***************************************************************************)
MaxPaths == 4

KeyPool ==
    <<<<"/", "z", "o", "n", "e", "s", "/", "{", "i", "}", "/", "b">>,
      <<"/", "a", "c", "c", "o", "u", "n", "t", "s", "/", "{", "i", "}", "/", "a">>,
      <<"/", "u", "s", "e", "r">>,
      <<"/", "z", "o", "n", "e", "s", "/", "{", "i", "}", "/", "a">>,
      <<"/", "a", "c", "c", "o", "u", "n", "t", "s", "/", "{", "i", "}", "/", "c", "/", "x">>,
      <<"/", "a", "c", "c", "o", "u", "n", "t", "s", "/", "{", "i", "}", "/", "a", "/", "x">>,
      <<"/", "z", "o", "n", "e", "s", "/", "{", "i", "}", "/", "c">>,
      <<"/", "a", "c", "c", "o", "u", "n", "t", "s", "/", "{", "i", "}", "/", "b">>>>

\* the elements of the set of indices picks, ascending
RECURSIVE Ascending(_)
Ascending(picks) ==
    IF picks = {} THEN <<>>
    ELSE LET least == CHOOSE i \in picks : \A j \in picks : i <= j
         IN  <<least>> \o Ascending(picks \ {least})

Reverse(seq) == [i \in 1..Len(seq) |-> seq[Len(seq) + 1 - i]]

KeyOrders ==
    LET chosen == {Ascending(picks) : picks \in {x \in SUBSET (1..Len(KeyPool)) : Cardinality(x) <= MaxPaths}}
    IN  chosen \cup {Reverse(o) : o \in chosen}

MainDocument(order) ==
    Obj(<<KV(PATHS, Obj([i \in 1..Len(order) |->
            KV(KeyPool[order[i]], IF KeyPool[order[i]] = <<"/", "u", "s", "e", "r">> THEN Null ELSE Obj(<<>>))]))>>)

\* lines 95-96 and 122: the Document fetched, its path keys sorted, the Map
MainStart ==
    /\ mpc = "idle"
    /\ \E order \in KeyOrders :
          /\ doc' = MainDocument(order)
          /\ pathKeys' = SortedKeys(MainDocument(order))
    /\ products' = <<>>
    /\ ki' = 1
    /\ mpc' = "count"
    /\ UNCHANGED <<input, cur, stack, seen, parts, resolved, ret, pc>>
    /\ UNCHANGED <<sortedProducts, PRODUCTS>>
    /\ UNCHANGED <<generatorVars, productVars>>

(***************************************************************************)
(* Specifications                                                          *)
(***************************************************************************)
vars == <<resolverVars, generatorVars, productVars, mainVars>>

ResolverIdle ==
    /\ doc = Null
    /\ input = Undef
    /\ cur = Undef
    /\ stack = <<>>
    /\ seen = {}
    /\ parts = <<>>
    /\ resolved = Undef
    /\ ret = Undef
    /\ pc = "idle"

GeneratorIdle ==
    /\ gpc = "idle"
    /\ pi = 1
    /\ mi = 1
    /\ paths = <<>>
    /\ tags = <<>>
    /\ done = <<>>
    /\ out = Undef

ProductIdle ==
    /\ path = <<>>
    /\ product = Undef
    /\ ppc = "idle"

MainIdle ==
    /\ pathKeys = <<>>
    /\ ki = 1
    /\ products = <<>>
    /\ sortedProducts = <<>>
    /\ PRODUCTS = <<>>
    /\ mpc = "idle"

Init == ResolverIdle /\ GeneratorIdle /\ ProductIdle /\ MainIdle

\* one top-level call of resolveRefs
Next ==
    \/ TopLevelCall
    \/ ResolveStep
    \/ ReturnTop

Spec == Init /\ [][Next]_vars

\* the call runs on until it returns
LiveSpec == Spec /\ WF_vars(Next)

\* one call of generateSpecFile
GenNext ==
    \/ GenerateStart
    \/ SkipPath
    \/ EnterPath
    \/ SkipMethod
    \/ StartOperation
    \/ ResolveRequestBody
    \/ ResolveResponses
    \/ StoreOperation
    \/ NextPath
    \/ GenerateReturn
    \/ ResolveStep

GenSpec == Init /\ [][GenNext]_vars

\* one call of extractProduct
ProductNext ==
    \/ ProductCall
    \/ ProductReturn

ProductSpec == Init /\ [][ProductNext]_vars

\* one run of main
MainNext ==
    \/ MainStart
    \/ CountProduct
    \/ SortStep
    \/ WriteProducts

MainSpec == Init /\ [][MainNext]_vars

\* the step machine and the function agree on the value returned
StepsAgreeWithFunction ==
    pc = "done" => ret = ResolveRefs(input, doc, {}).val

(***************************************************************************)
(* Claims about resolveRefs                                                *)
(***************************************************************************)
Slot(name) == GetKey(GetKey(doc, S("c")), S(name))

\* the reference strings whose expansion the current call lies in
ChainRefs == {stack[i].ref : i \in {j \in 1..Len(stack) : stack[j].kind = "ref"}}

\* a mapping that carries a string under the reference-marker key
CarriesReference(val) ==
    /\ val.t = "object"
    /\ \E i \in 1..Len(val.kids) : val.kids[i].k = REF /\ val.kids[i].v.t = "string"

\* the cycle placeholder that names a reference string
PlaceholderFor(ref) == Obj(<<KV(CIRCULAR, Str(ref))>>)

RECURSIVE FullyResolved(_)
FullyResolved(val) ==
    /\ ~CarriesReference(val)
    /\ \A i \in 1..Len(val.kids) : FullyResolved(val.kids[i].v)

\* a marker whose reference string leads nowhere in the Document
IsDangling(val) == CarriesReference(val) /\ Lookup(GetKey(val, REF).s, doc) = Undef

\* the target of A is a marker for B and the target of B is a marker for A
TwoCycleCase ==
    /\ input = Marker(RefA)
    /\ Slot("A") = Marker(RefB)
    /\ Slot("B") = Marker(RefA)

\* the target of A is a marker for B, the target of B a marker for C, C a scalar
ChainCase ==
    /\ input = Marker(RefA)
    /\ Slot("A") = Marker(RefB)
    /\ Slot("B") = Marker(RefC)
    /\ Slot("C").t = "string"

\* C1: every top-level call returns, whatever cycles the markers form, and
\* for the cycle A -> B -> A the call on A returns a cycle placeholder that
\* names one of the two reference strings.
C1_Terminates ==
    <>(/\ pc = "done"
       /\ TwoCycleCase => ret \in {PlaceholderFor(RefA), PlaceholderFor(RefB)})

C1_Witness ==
    /\ pc = "done"
    /\ TwoCycleCase
    /\ ret = PlaceholderFor(RefA)

\* C2: for the chain A -> B -> C with C a plain scalar, the call on the
\* marker A returns exactly that scalar.
C2_ChainYieldsScalar ==
    (pc = "done" /\ ChainCase) => ret = Slot("C")

C2_Witness ==
    /\ pc = "done"
    /\ ChainCase
    /\ ret = Scalar
    /\ seen = {RefA, RefB, RefC}

\* C3: a marker is replaced by a cycle placeholder only if its reference
\* string is being expanded on the chain that leads to it.
C3_PlaceholderOnlyOnChain ==
    (pc = "call" /\ CarriesReference(cur) /\ GetKey(cur, REF).s \in seen)
        => GetKey(cur, REF).s \in ChainRefs

C10_DanglingYieldsAbsent ==
    pc = "done" =>
        /\ IsDangling(input) => ret = Undef
        /\ (input.t \in {"array", "object"} /\ ~CarriesReference(input)) =>
              /\ Len(ret.kids) = Len(input.kids)
              /\ \A i \in 1..Len(input.kids) :
                    IsDangling(input.kids[i].v) => ret.kids[i].v = Undef


(***************************************************************************)
(* Claims about generateSpecFile                                           *)
(***************************************************************************)
\* the strings of a sequence of tags
Strings(kids) == [i \in 1..Len(kids) |-> kids[i].v.s]

\* the two strings differ at most in the case of their letters
SameButCase(a, b) ==
    /\ Len(a) = Len(b)
    /\ \A i \in 1..Len(a) :
          \/ a[i] = b[i]
          \/ {a[i], b[i]} \in {{"d", "D"}, {"n", "N"}, {"r", "R"}, {"s", "S"}, {"x", "X"}}

\* the operation the Document has at a path key and a method
SourceOperation(key, method) == GetKey(GetKey(GetKey(doc, PATHS), key), method)

\* the tags the claim gives the operation
ClaimedTags(key, method) ==
    LET op == SourceOperation(key, method)
        existing == IF HasKey(op, TAGS) THEN Strings(GetKey(op, TAGS).kids) ELSE <<>>
        prod == extractProduct(key)
    IN  IF prod # Undef /\ \A i \in 1..Len(existing) : ~SameButCase(existing[i], prod.s)
        THEN <<prod.s>> \o existing
        ELSE existing

\* the entries of the reduced document: its paths, and the methods of a path
OutPaths == GetKey(out, PATHS).kids
OutTags(key, method) ==
    Strings(GetKey(GetKey(GetKey(GetKey(out, PATHS), key), method), TAGS).kids)

\* C4: the tags of every operation of the reduced document are the derived
\* product followed by the operation's tags when the path derives a product
\* and no tag equals it but for case, and the operation's tags otherwise.
C4_TagSequence ==
    gpc = "done" =>
        \A i \in 1..Len(OutPaths) : \A j \in 1..Len(OutPaths[i].v.kids) :
            Strings(GetKey(OutPaths[i].v.kids[j].v, TAGS).kids)
                = ClaimedTags(OutPaths[i].k, OutPaths[i].v.kids[j].k)

\* "dns_records" is prepended to "DNS Records", here d_r to D R
C4_Witness ==
    /\ gpc = "done"
    /\ HasKey(GetKey(out, PATHS), PathRecords)
    /\ HasKey(GetKey(GetKey(out, PATHS), PathRecords), GET)
    /\ OutTags(PathRecords, GET) = <<<<"d", "_", "r">>, <<"D", " ", "R">>>>

RecognizedMethods == {<<"g", "e", "t">>, <<"p", "o", "s", "t">>, <<"p", "u", "t">>, <<"p", "a", "t", "c", "h">>, <<"d", "e", "l", "e", "t", "e">>}

\* C5: the paths of the reduced document are the paths whose entry is not
\* absent, and the methods under a path are the methods among get, post,
\* put, patch and delete under which the path entry has an operation.
C5_MethodKeys ==
    gpc = "done" =>
        /\ ObjectKeys(GetKey(out, PATHS))
              = ObjectKeys(Obj(SelectSeq(PathEntries(doc), LAMBDA e : e.v # Null)))
        /\ \A i \in 1..Len(OutPaths) :
              {OutPaths[i].v.kids[j].k : j \in 1..Len(OutPaths[i].v.kids)}
                 = {m \in RecognizedMethods :
                       SourceOperation(OutPaths[i].k, m) \notin {Undef, Null}}
        /\ \A i \in 1..Len(OutPaths) :
              Len(OutPaths[i].v.kids) = Cardinality({OutPaths[i].v.kids[j].k : j \in 1..Len(OutPaths[i].v.kids)})

\* a path entry with get and options, and an absent path entry
C5_Witness ==
    /\ gpc = "done"
    /\ HasKey(GetKey(GetKey(doc, PATHS), PathDns), OPTIONS)
    /\ GetKey(GetKey(doc, PATHS), PathOther) = Null
    /\ ObjectKeys(GetKey(out, PATHS)) = <<PathDns>>
    /\ ObjectKeys(GetKey(GetKey(out, PATHS), PathDns)) = <<GET>>

\* C9: every field of every operation stored is the value the resolver gives
\* the field alone, from an empty Set.
C9_FieldsResolvedAlone ==
    \A i \in 1..Len(paths) : \A j \in 1..Len(paths[i].v.kids) :
        \A field \in {PARAMETERS, REQUESTBODY, RESPONSES} :
            GetKey(paths[i].v.kids[j].v, field)
                = ResolveRefs(GetKey(SourceOperation(paths[i].k, paths[i].v.kids[j].k), field),
                              doc, {}).val

\* the reference string expanded for parameters is expanded again for
\* requestBody and for responses
C9_Witness ==
    /\ gpc = "done"
    /\ \E i \in 1..Len(paths) : \E j \in 1..Len(paths[i].v.kids) :
          /\ GetKey(SourceOperation(paths[i].k, paths[i].v.kids[j].k), REQUESTBODY) = Marker(RefA)
          /\ GetKey(paths[i].v.kids[j].v, PARAMETERS) = Arr(<<Scalar>>)
          /\ GetKey(paths[i].v.kids[j].v, REQUESTBODY) = Scalar
          /\ GetKey(paths[i].v.kids[j].v, RESPONSES) = Obj(<<KV(<<"2", "0", "0">>, Scalar)>>)

(***************************************************************************)
(* Claims about extractProduct                                             *)
(***************************************************************************)
\* "/word/{" stands at index at
OpensAt(str, word, at) ==
    LET lit == <<"/">> \o word \o <<"/", "{">>
    IN  /\ at + Len(lit) - 1 <= Len(str)
        /\ SubSeq(str, at, at + Len(lit) - 1) = lit

\* a placeholder that begins at index from ends at index p, and a non-empty
\* segment follows "}/" and ends at index e
FollowedAt(str, from, p, e) ==
    /\ p >= from
    /\ \A k \in from..p : str[k] # "}"
    /\ p + 2 <= Len(str)
    /\ str[p + 1] = "}"
    /\ str[p + 2] = "/"
    /\ e >= p + 3
    /\ \A k \in (p + 3)..e : str[k] # "/"
    /\ (e = Len(str) \/ str[e + 1] = "/")

Spans(str, from) ==
    {pe \in (from..Len(str)) \X (from..Len(str)) : FollowedAt(str, from, pe[1], pe[2])}

\* where /word/{placeholder}/ with a segment after it occurs
Occurrences(str, word) ==
    {at \in 1..Len(str) :
        OpensAt(str, word, at) /\ Spans(str, at + Len(word) + 3) # {}}

\* the segment that follows the first occurrence
FirstSegment(str, word) ==
    LET first == CHOOSE at \in Occurrences(str, word) :
                    \A other \in Occurrences(str, word) : at <= other
        span == CHOOSE pe \in Spans(str, first + Len(word) + 3) : TRUE
    IN  Str(SubSeq(str, span[1] + 3, span[2]))

\* C6: the segment after the first /accounts/{placeholder}/ that a segment
\* follows; without one, the segment after the first such /zones/{placeholder}/;
\* without one, absent.
C6_FirstOccurrence ==
    ppc = "done" =>
        product = IF Occurrences(path, ACCOUNTS) # {} THEN FirstSegment(path, ACCOUNTS)
                  ELSE IF Occurrences(path, ZONES) # {} THEN FirstSegment(path, ZONES)
                  ELSE Undef

\* a zones match that begins first loses to the accounts match
C6_Witness ==
    /\ ppc = "done"
    /\ path = <<"/", "z", "o", "n", "e", "s", "/", "{", "a", "}", "/", "a", "c", "c", "o", "u", "n", "t", "s", "/", "{", "a", "}", "/", "y">>
    /\ product = Str(<<"y">>)

(***************************************************************************)
(* Claims about the product list                                           *)
(***************************************************************************)
DocKeys == {GetKey(doc, PATHS).kids[i].k : i \in 1..Len(GetKey(doc, PATHS).kids)}

\* the path keys that derive the product
Deriving(prod) == {key \in DocKeys : extractProduct(key) = Str(prod)}

\* the first of them in sorted order
FirstDeriving(prod) ==
    CHOOSE key \in Deriving(prod) : \A other \in Deriving(prod) \ {key} : StrLess(key, other)

\* C7: the list holds each product some path key derives once and nothing
\* else, by descending count of the path keys deriving it, products of one
\* count in the order the sorted path keys first derive them.
C7_ProductList ==
    mpc = "done" =>
        /\ {PRODUCTS[i] : i \in 1..Len(PRODUCTS)}
              = {extractProduct(key).s : key \in {k \in DocKeys : extractProduct(k) # Undef}}
        /\ \A i \in 1..Len(PRODUCTS) : \A j \in 1..Len(PRODUCTS) :
              i < j =>
                 /\ PRODUCTS[i] # PRODUCTS[j]
                 /\ \/ Cardinality(Deriving(PRODUCTS[i])) > Cardinality(Deriving(PRODUCTS[j]))
                    \/ /\ Cardinality(Deriving(PRODUCTS[i])) = Cardinality(Deriving(PRODUCTS[j]))
                       /\ StrLess(FirstDeriving(PRODUCTS[i]), FirstDeriving(PRODUCTS[j]))

\* counts a: 1, b: 2, c: 1
C7_Witness ==
    /\ mpc = "done"
    /\ ObjectKeys(GetKey(doc, PATHS)) = <<KeyPool[8], KeyPool[7], KeyPool[2], KeyPool[1]>>
    /\ PRODUCTS = <<<<"b">>, <<"a">>, <<"c">>>>

====
